---- MODULE Spec2Model ----
(***************************************************************************)
(* Model of simple_aes256_gcm.rs: the value types Key, Iv, Encrypted and   *)
(* their base64 conversions, and the operations encrypt and decrypt.       *)
(*                                                                         *)
(* Bytes are the integers 0..255.  A text (&str, String) is the sequence   *)
(* of its UTF-8 bytes, which is how Rust stores it.  A Result is a record  *)
(* [tag |-> "Ok", value |-> v] or [tag |-> "Err", error |-> e].            *)
(***************************************************************************)
EXTENDS Integers, Sequences, FiniteSets, TLC

VARIABLES
    padding,    \* how the linked base64 crate treats padding when decoding
    key,        \* the Key shared by all callers
    held,       \* the EncryptedAndIv values the callers own, in order of creation
    last        \* the most recent call: operation, inputs, result

vars == <<padding, key, held, last>>

----------------------------------------------------------------------------
(* Sizes fixed by the types.                                               *)

KeySize == 32
IvSize == 12
TagSize == 16

(* Bounds of the model.                                                    *)

Slack == 1          \* decoded lengths N-Slack..N+Slack around each size N
MaxSmall == 3       \* short decoded lengths 0..MaxSmall
MaxHeld == 2        \* EncryptedAndIv values the callers own at one time

----------------------------------------------------------------------------
(* Results.                                                                *)

Ok(v) == [tag |-> "Ok", value |-> v]
Err(e) == [tag |-> "Err", error |-> e]

None == [op |-> "none"]

----------------------------------------------------------------------------
(* Byte strings of the model.                                              *)

\* "0123456789012..." as bytes: the key and the iv of the module's tests
Digits0(n) == [i \in 1..n |-> 48 + ((i - 1) % 10)]
\* "1234567890123...": the key material of the example program
Digits1(n) == [i \in 1..n |-> 48 + (i % 10)]
Ramp(n) == [i \in 1..n |-> (i * 37 + 11) % 256]
Ones(n) == [i \in 1..n |-> 255]

Keys == {Digits0(KeySize), Ramp(KeySize)}

\* the values rand::random::<[u8; 12]>() returns in the model
Ivs == {Digits0(IvSize), Ramp(IvSize)}

----------------------------------------------------------------------------
(* Bit operations on bytes.                                                *)

RECURSIVE XorBits(_, _, _)
XorBits(a, b, n) ==
    IF n = 0 THEN 0
    ELSE ((a + b) % 2) + 2 * XorBits(a \div 2, b \div 2, n - 1)

\* XOR of two 4-bit values, tabulated
XorNibble == [a \in 0..15 |-> [b \in 0..15 |-> XorBits(a, b, 4)]]

Xor(a, b) ==
    XorNibble[a \div 16][b \div 16] * 16 + XorNibble[a % 16][b % 16]

----------------------------------------------------------------------------
(* base64 (RFC 4648 standard alphabet, '=' padding), as base64::encode and *)
(* base64::decode compute it.                                              *)

PAD_BYTE == 61

B64Char(v) ==
    IF v < 26 THEN 65 + v
    ELSE IF v < 52 THEN 97 + (v - 26)
    ELSE IF v < 62 THEN 48 + (v - 52)
    ELSE IF v = 62 THEN 43
    ELSE 47

\* the 6-bit value of a symbol, -1 for a byte outside the alphabet
B64Val(c) ==
    IF c >= 65 /\ c <= 90 THEN c - 65
    ELSE IF c >= 97 /\ c <= 122 THEN c - 97 + 26
    ELSE IF c >= 48 /\ c <= 57 THEN c - 48 + 52
    ELSE IF c = 43 THEN 62
    ELSE IF c = 47 THEN 63
    ELSE -1

RECURSIVE base64_encode(_)
base64_encode(b) ==
    IF Len(b) = 0 THEN <<>>
    ELSE IF Len(b) = 1 THEN
        << B64Char(b[1] \div 4), B64Char((b[1] % 4) * 16), PAD_BYTE, PAD_BYTE >>
    ELSE IF Len(b) = 2 THEN
        << B64Char(b[1] \div 4),
           B64Char((b[1] % 4) * 16 + (b[2] \div 16)),
           B64Char((b[2] % 16) * 4),
           PAD_BYTE >>
    ELSE
        << B64Char(b[1] \div 4),
           B64Char((b[1] % 4) * 16 + (b[2] \div 16)),
           B64Char((b[2] % 16) * 4 + (b[3] \div 64)),
           B64Char(b[3] % 64) >>
        \o base64_encode(SubSeq(b, 4, Len(b)))

\* the number of bytes before the first '='
RECURSIVE DataLen(_)
DataLen(t) ==
    IF Len(t) = 0 \/ t[1] = PAD_BYTE THEN 0
    ELSE 1 + DataLen(Tail(t))

\* the bytes carried by a run of symbols; a final group of 2 or 3 symbols
\* carries 1 or 2 bytes
RECURSIVE DecodeSymbols(_)
DecodeSymbols(s) ==
    IF Len(s) < 2 THEN <<>>
    ELSE IF Len(s) = 2 THEN
        << B64Val(s[1]) * 4 + (B64Val(s[2]) \div 16) >>
    ELSE IF Len(s) = 3 THEN
        << B64Val(s[1]) * 4 + (B64Val(s[2]) \div 16),
           (B64Val(s[2]) % 16) * 16 + (B64Val(s[3]) \div 4) >>
    ELSE
        << B64Val(s[1]) * 4 + (B64Val(s[2]) \div 16),
           (B64Val(s[2]) % 16) * 16 + (B64Val(s[3]) \div 4),
           (B64Val(s[3]) % 4) * 64 + B64Val(s[4]) >>
        \o DecodeSymbols(SubSeq(s, 5, Len(s)))

\* the bits of the last symbol that no output byte receives
TrailingBits(s) ==
    IF Len(s) % 4 = 2 THEN B64Val(s[Len(s)]) % 16
    ELSE IF Len(s) % 4 = 3 THEN B64Val(s[Len(s)]) % 4
    ELSE 0

\* The sources do not pin the base64 crate.  Its decoder ignores missing
\* padding up to version 0.13 and requires canonical padding from 0.20 on;
\* padding is the mode of the version linked.
PaddingModes == {"Indifferent", "RequireCanonical"}

base64_decode(t) ==
    LET m == DataLen(t)
        s == SubSeq(t, 1, m)
        pad == Len(t) - m
    IN  IF \E i \in 1..m : B64Val(t[i]) = -1 THEN Err("InvalidByte")
        ELSE IF \E i \in (m + 1)..Len(t) : t[i] # PAD_BYTE THEN Err("InvalidByte")
        ELSE IF pad > 0 /\ (m % 4 < 2 \/ pad > 4 - (m % 4)) THEN Err("InvalidByte")
        ELSE IF m % 4 = 1 THEN Err("InvalidLength")
        ELSE IF padding = "RequireCanonical" /\ pad # (4 - (m % 4)) % 4
             THEN Err("InvalidPadding")
        ELSE IF TrailingBits(s) # 0 THEN Err("InvalidLastSymbol")
        ELSE Ok(DecodeSymbols(s))

----------------------------------------------------------------------------
(* Key, Iv, Encrypted: construction from base64 text and rendering.        *)

\* the two errors exchanged
Key_try_from_swapped(base64_key) ==
    LET decoded == base64_decode(base64_key)
    IN  IF decoded.tag = "Err" THEN Err("InvalidKeySizeError")
        ELSE IF Len(decoded.value) = KeySize THEN Ok(decoded.value)
        ELSE Err("InvalidKeyBase64Error")

Key_try_from(base64_key) ==
    LET decoded == base64_decode(base64_key)
    IN  IF decoded.tag = "Err" THEN Err("InvalidKeyBase64Error")
        ELSE IF Len(decoded.value) = KeySize THEN Ok(decoded.value)
        ELSE Err("InvalidKeySizeError")

\* the size of a key expected of an iv
Iv_try_from_key_size(base64_iv) ==
    LET decoded == base64_decode(base64_iv)
    IN  IF decoded.tag = "Err" THEN Err("InvalidIvBase64Error")
        ELSE IF Len(decoded.value) = KeySize THEN Ok(decoded.value)
        ELSE Err("InvalidIvSizeError")

Iv_try_from(base64_iv) ==
    LET decoded == base64_decode(base64_iv)
    IN  IF decoded.tag = "Err" THEN Err("InvalidIvBase64Error")
        ELSE IF Len(decoded.value) = IvSize THEN Ok(decoded.value)
        ELSE Err("InvalidIvSizeError")

Iv_generate == Ivs

String_from_Iv(iv) == base64_encode(iv)

Encrypted_try_from(base64_encrypted) ==
    LET decoded == base64_decode(base64_encrypted)
    IN  IF decoded.tag = "Err" THEN Err(decoded.error)
        ELSE Ok(decoded.value)

\* encoded without the '=' padding
String_from_Encrypted_no_pad(encrypted) ==
    LET t == base64_encode(encrypted)
    IN  SubSeq(t, 1, DataLen(t))

String_from_Encrypted(encrypted) == base64_encode(encrypted)

----------------------------------------------------------------------------
(* String::from_utf8: the bytes themselves when they are well-formed UTF-8 *)
(* (no overlong form, no surrogate, nothing above U+10FFFF).               *)

IsCont(b) == b >= 128 /\ b <= 191

RECURSIVE ValidUtf8(_)
ValidUtf8(v) ==
    IF Len(v) = 0 THEN TRUE
    ELSE LET b == v[1]
             n == Len(v)
         IN  IF b <= 127 THEN ValidUtf8(Tail(v))
             ELSE IF b >= 194 /\ b <= 223 THEN
                 /\ n >= 2
                 /\ IsCont(v[2])
                 /\ ValidUtf8(SubSeq(v, 3, n))
             ELSE IF b >= 224 /\ b <= 239 THEN
                 /\ n >= 3
                 /\ IF b = 224 THEN v[2] >= 160 /\ v[2] <= 191
                    ELSE IF b = 237 THEN v[2] >= 128 /\ v[2] <= 159
                    ELSE IsCont(v[2])
                 /\ IsCont(v[3])
                 /\ ValidUtf8(SubSeq(v, 4, n))
             ELSE IF b >= 240 /\ b <= 244 THEN
                 /\ n >= 4
                 /\ IF b = 240 THEN v[2] >= 144 /\ v[2] <= 191
                    ELSE IF b = 244 THEN v[2] >= 128 /\ v[2] <= 143
                    ELSE IsCont(v[2])
                 /\ IsCont(v[3])
                 /\ IsCont(v[4])
                 /\ ValidUtf8(SubSeq(v, 5, n))
             ELSE FALSE

String_from_utf8(v) == IF ValidUtf8(v) THEN Ok(v) ELSE Err("FromUtf8Error")

----------------------------------------------------------------------------
(* The AEAD primitive behind Aes256Gcm, in the shape of GCM: the body is   *)
(* the plaintext XORed with a keystream of (key, nonce); the tag is a hash *)
(* of the body XORed with a mask of (key, nonce).  The hash is taken       *)
(* collision-free on the bodies of the model (at most TagSize - 1 bytes)   *)
(* and the mask distinct for distinct (key, nonce): a forgery needs the    *)
(* key.                                                                    *)

KeyStream(k, n, i) ==
    Xor(k[((i - 1) % KeySize) + 1], Xor(n[((i - 1) % IvSize) + 1], i % 256))

Ctr(k, n, data) == [i \in 1..Len(data) |-> Xor(data[i], KeyStream(k, n, i))]

Mask(k, n) ==
    [j \in 1..TagSize |->
        Xor(Xor(k[j], (k[j + TagSize] * 3) % 256), n[((j - 1) % IvSize) + 1])]

Ghash(body) ==
    [j \in 1..TagSize |->
        IF j = 1 THEN Len(body) % 256
        ELSE IF j - 1 <= Len(body) THEN body[j - 1]
        ELSE 0]

Tag(k, n, body) ==
    LET g == Ghash(body)
        m == Mask(k, n)
    IN  [j \in 1..TagSize |-> Xor(g[j], m[j])]

aead_encrypt(k, nonce, plaintext) ==
    LET body == Ctr(k, nonce, plaintext)
    IN  Ok(body \o Tag(k, nonce, body))

aead_decrypt(k, nonce, ciphertext) ==
    IF Len(ciphertext) < TagSize THEN Err("aead::Error")
    ELSE LET body == SubSeq(ciphertext, 1, Len(ciphertext) - TagSize)
             tag == SubSeq(ciphertext, Len(ciphertext) - TagSize + 1, Len(ciphertext))
         IN  IF tag = Tag(k, nonce, body) THEN Ok(Ctr(k, nonce, body))
             ELSE Err("aead::Error")

----------------------------------------------------------------------------
(* encrypt and decrypt.                                                    *)

EncryptedAndIv(encrypted, iv) == [encrypted |-> encrypted, iv |-> iv]

\* a second Iv::generate() for the value returned
encrypt_second_iv(k, decrypted, iv) ==
    LET sealed == aead_encrypt(k, iv, decrypted)
    IN  IF sealed.tag = "Ok"
        THEN Ok(EncryptedAndIv(sealed.value, CHOOSE other \in Iv_generate : other # iv))
        ELSE Err("GenericEncryptionError")

\* one fixed nonce for every message
encrypt_static_nonce(k, decrypted, iv) ==
    LET sealed == aead_encrypt(k, Digits0(IvSize), decrypted)
    IN  IF sealed.tag = "Ok" THEN Ok(EncryptedAndIv(sealed.value, iv))
        ELSE Err("GenericEncryptionError")

\* iv is the value Iv::generate() returned to this call
encrypt(k, decrypted, iv) ==
    LET sealed == aead_encrypt(k, iv, decrypted)
    IN  IF sealed.tag = "Ok" THEN Ok(EncryptedAndIv(sealed.value, iv))
        ELSE Err("GenericEncryptionError")

\* the two errors exchanged
decrypt_swapped_errors(k, encrypted_and_iv) ==
    LET opened == aead_decrypt(k, encrypted_and_iv.iv, encrypted_and_iv.encrypted)
    IN  IF opened.tag = "Ok" THEN
            LET text == String_from_utf8(opened.value)
            IN  IF text.tag = "Ok" THEN Ok(text.value)
                ELSE Err("GenericDecryptionError")
        ELSE Err("InvalidUTF8DecryptionError")

\* String::from_utf8_unchecked in place of String::from_utf8
decrypt_unchecked_utf8(k, encrypted_and_iv) ==
    LET opened == aead_decrypt(k, encrypted_and_iv.iv, encrypted_and_iv.encrypted)
    IN  IF opened.tag = "Ok" THEN Ok(opened.value)
        ELSE Err("GenericDecryptionError")

decrypt(k, encrypted_and_iv) ==
    LET opened == aead_decrypt(k, encrypted_and_iv.iv, encrypted_and_iv.encrypted)
    IN  IF opened.tag = "Ok" THEN
            LET text == String_from_utf8(opened.value)
            IN  IF text.tag = "Ok" THEN Ok(text.value)
                ELSE Err("InvalidUTF8DecryptionError")
        ELSE Err("GenericDecryptionError")

----------------------------------------------------------------------------
(* Inputs of the model.                                                    *)

\* Decrypted values: "" and "é"
Texts == {<<>>, <<195, 169>>}

\* byte strings sealed directly with the primitive, with whether each is
\* well-formed UTF-8: "A", "é", "€", the test's 0x85 0x85, a cut sequence,
\* an overlong form, a surrogate
RawInputs ==
    { [bytes |-> <<65>>, utf8 |-> TRUE],
      [bytes |-> <<195, 169>>, utf8 |-> TRUE],
      [bytes |-> <<226, 130, 172>>, utf8 |-> TRUE],
      [bytes |-> <<133, 133>>, utf8 |-> FALSE],
      [bytes |-> <<65, 195>>, utf8 |-> FALSE],
      [bytes |-> <<192, 128>>, utf8 |-> FALSE],
      [bytes |-> <<237, 160, 128>>, utf8 |-> FALSE] }

DecodedLens ==
    (0..MaxSmall)
        \cup ((IvSize - Slack)..(IvSize + Slack))
        \cup ((KeySize - Slack)..(KeySize + Slack))

DecodedBytes == UNION { {Digits0(n), Ramp(n), Ones(n)} : n \in DecodedLens }

\* the number of '=' a canonical text of n bytes ends with
PadCount(n) == (3 - (n % 3)) % 3

DropLast(t, n) == SubSeq(t, 1, Len(t) - n)

\* texts that decode to b: the canonical one, and the one with its padding
\* left out
WellFormed(b) ==
    LET t == base64_encode(b)
    IN  { [text |-> t, bytes |-> b, form |-> "canonical"] }
        \cup { [text |-> DropLast(t, n), bytes |-> b, form |-> "unpadded"]
                 : n \in {PadCount(Len(b))} \ {0} }

\* texts that are not base64: a byte outside the alphabet, a symbol or a '='
\* too many, a line break, a last symbol with bits that belong to no byte
Malformed(b) ==
    LET t == base64_encode(b)
        d == Len(t) - PadCount(Len(b))
    IN  { [text |-> t \o <<c>>, bytes |-> b, form |-> "malformed"]
            : c \in {65, PAD_BYTE, 10} }
        \cup { [text |-> [t EXCEPT ![1] = 33], bytes |-> b, form |-> "malformed"]
                 : x \in {1} \cap (1..Len(t)) }
        \cup { [text |-> [t EXCEPT ![d] = B64Char(B64Val(t[d]) + 1)],
                bytes |-> b, form |-> "malformed"]
                 : x \in {1} \cap (1..PadCount(Len(b))) }

\* raw key material handed over as text, as the example program does
KeyMaterial ==
    { [text |-> Digits1(n), bytes |-> Digits1(n), form |-> "raw"]
        : n \in (KeySize - Slack)..(KeySize + Slack) }

Inputs == UNION { WellFormed(b) \cup Malformed(b) : b \in DecodedBytes }

----------------------------------------------------------------------------
(* The state after construction: no call made, nothing owned.              *)

Init ==
    /\ padding \in PaddingModes
    /\ key \in Keys
    /\ held = <<>>
    /\ last = None

----------------------------------------------------------------------------
(* Calls of the conversions.  A caller holds one text and converts it.     *)

InitCodec ==
    /\ padding \in PaddingModes
    /\ key \in Keys
    /\ held = <<>>
    /\ last \in { [op |-> "input", input |-> in] : in \in Inputs \cup KeyMaterial }

KeyTryFrom ==
    /\ last.op = "input"
    /\ last' = [op |-> "Key::try_from", input |-> last.input,
                result |-> Key_try_from(last.input.text)]
    /\ UNCHANGED <<padding, key, held>>

IvTryFrom ==
    /\ last.op = "input"
    /\ last' = [op |-> "Iv::try_from", input |-> last.input,
                result |-> Iv_try_from(last.input.text)]
    /\ UNCHANGED <<padding, key, held>>

EncryptedTryFrom ==
    /\ last.op = "input"
    /\ last' = [op |-> "Encrypted::try_from", input |-> last.input,
                result |-> Encrypted_try_from(last.input.text)]
    /\ UNCHANGED <<padding, key, held>>

\* format!("{}", Iv::try_from(text).unwrap())
IvFormat ==
    /\ last.op = "input"
    /\ LET iv == Iv_try_from(last.input.text)
       IN  /\ iv.tag = "Ok"
           /\ last' = [op |-> "Iv::fmt", input |-> last.input, result |-> iv,
                       rendered |-> String_from_Iv(iv.value)]
    /\ UNCHANGED <<padding, key, held>>

\* format!("{}", Encrypted::try_from(text).unwrap())
EncryptedFormat ==
    /\ last.op = "input"
    /\ LET encrypted == Encrypted_try_from(last.input.text)
       IN  /\ encrypted.tag = "Ok"
           /\ last' = [op |-> "Encrypted::fmt", input |-> last.input,
                       result |-> encrypted,
                       rendered |-> String_from_Encrypted(encrypted.value)]
    /\ UNCHANGED <<padding, key, held>>

NextCodec ==
    \/ KeyTryFrom
    \/ IvTryFrom
    \/ EncryptedTryFrom
    \/ IvFormat
    \/ EncryptedFormat

SpecCodec == InitCodec /\ [][NextCodec]_vars

----------------------------------------------------------------------------
(* Calls of encrypt and decrypt by callers that share key.  An element of  *)
(* held is [pair |-> the EncryptedAndIv, sealed |-> what the primitive     *)
(* sealed into it: key, nonce, plaintext bytes].                           *)

Remove(s, i) == SubSeq(s, 1, i - 1) \o SubSeq(s, i + 1, Len(s))

Flip(s, i, bit) == [s EXCEPT ![i] = Xor(s[i], bit)]

OtherKey(k) == CHOOSE other \in Keys : other # k

\* how a caller comes to the argument of decrypt from a pair p it can read
Hows ==
    {"copy", "wire", "key", "iv", "first", "last", "truncated", "short", "extended"}

\* the EncryptedAndIv a caller builds from the public fields of p
Argument(p, how) ==
    CASE how \in {"copy", "key"} -> Ok(p)
      [] how = "wire" ->
            LET encrypted == Encrypted_try_from(String_from_Encrypted(p.encrypted))
                iv == Iv_try_from(String_from_Iv(p.iv))
            IN  IF encrypted.tag = "Ok" /\ iv.tag = "Ok"
                THEN Ok(EncryptedAndIv(encrypted.value, iv.value))
                ELSE Err(<<encrypted, iv>>)
      [] how = "iv" -> Ok(EncryptedAndIv(p.encrypted, Flip(p.iv, 1, 1)))
      [] how = "first" -> Ok(EncryptedAndIv(Flip(p.encrypted, 1, 1), p.iv))
      [] how = "last" ->
            Ok(EncryptedAndIv(Flip(p.encrypted, Len(p.encrypted), 128), p.iv))
      [] how = "truncated" -> Ok(EncryptedAndIv(DropLast(p.encrypted, 1), p.iv))
      [] how = "short" ->
            Ok(EncryptedAndIv(SubSeq(p.encrypted, 1, TagSize - 1), p.iv))
      [] how = "extended" -> Ok(EncryptedAndIv(p.encrypted \o <<0>>, p.iv))

Encrypt(decrypted) ==
    /\ Len(held) < MaxHeld
    /\ \E iv \in Iv_generate :
        LET result == encrypt(key, decrypted, iv)
        IN  /\ held' = IF result.tag = "Ok"
                       THEN Append(held,
                                [pair |-> result.value,
                                 sealed |-> [key |-> key, iv |-> iv,
                                             bytes |-> decrypted]])
                       ELSE held
            /\ last' = [op |-> "encrypt", text |-> decrypted, nonce |-> iv,
                        result |-> result]
    /\ UNCHANGED <<padding, key>>

\* the key wiped once used
Decrypt_wiping_key(i) ==
    /\ i \in 1..Len(held)
    /\ last' = [op |-> "decrypt", how |-> "moved", key |-> key,
                arg |-> Ok(held[i].pair), of |-> held[i],
                result |-> decrypt(key, held[i].pair)]
    /\ held' = Remove(held, i)
    /\ key' = [j \in 1..KeySize |-> 0]
    /\ UNCHANGED padding

\* decrypt(&key, pair): the pair is moved into the call
Decrypt(i) ==
    /\ i \in 1..Len(held)
    /\ last' = [op |-> "decrypt", how |-> "moved", key |-> key,
                arg |-> Ok(held[i].pair), of |-> held[i],
                result |-> decrypt(key, held[i].pair)]
    /\ held' = Remove(held, i)
    /\ UNCHANGED <<padding, key>>

\* decrypt(&k, EncryptedAndIv { .. }) on a pair built from held[i]'s bytes
DecryptCopy(i, how) ==
    /\ i \in 1..Len(held)
    /\ LET arg == Argument(held[i].pair, how)
           k == IF how = "key" THEN OtherKey(key) ELSE key
       IN  last' = [op |-> "decrypt", how |-> how, key |-> k,
                    arg |-> arg, of |-> held[i],
                    result |-> IF arg.tag = "Ok" THEN decrypt(k, arg.value)
                               ELSE None]
    /\ UNCHANGED <<padding, key, held>>

Next ==
    \/ \E decrypted \in Texts : Encrypt(decrypted)
    \/ \E i \in 1..MaxHeld : Decrypt(i)
    \/ \E i \in 1..MaxHeld, how \in Hows : DecryptCopy(i, how)

Spec == Init /\ [][Next]_vars

----------------------------------------------------------------------------
(* The primitive used directly on raw bytes, as decrypt_fails_when_non_utf8 *)
(* does: generate an iv, seal the bytes, build the pair, decrypt.          *)

InitRaw ==
    /\ padding \in PaddingModes
    /\ key \in Keys
    /\ held = <<>>
    /\ last \in { [op |-> "input", raw |-> raw, how |-> how]
                    : raw \in RawInputs, how \in Hows }

DecryptRaw ==
    /\ last.op = "input"
    /\ \E iv \in Iv_generate :
        LET raw == last.raw
            how == last.how
            sealed == aead_encrypt(key, iv, raw.bytes)
            pair == EncryptedAndIv(sealed.value, iv)
            arg == Argument(pair, how)
            k == IF how = "key" THEN OtherKey(key) ELSE key
        IN  last' = [op |-> "decrypt", how |-> how, key |-> k, arg |-> arg,
                     of |-> [pair |-> pair,
                             sealed |-> [key |-> key, iv |-> iv,
                                         bytes |-> raw.bytes]],
                     utf8 |-> raw.utf8,
                     result |-> IF arg.tag = "Ok" THEN decrypt(k, arg.value)
                                ELSE None]
    /\ UNCHANGED <<padding, key, held>>

NextRaw == DecryptRaw

SpecRaw == InitRaw /\ [][NextRaw]_vars

----------------------------------------------------------------------------
(* Properties.                                                             *)

\* a decrypt call whose key, nonce and ciphertext are those of the sealing
Authentic(call) == call.how \in {"moved", "copy", "wire"}

\* what a decrypt call returns, from what was sealed and how the argument
\* was made: nothing else enters
Expected(of, how) ==
    IF how \in {"moved", "copy", "wire"} THEN Ok(of.sealed.bytes)
    ELSE Err("GenericDecryptionError")

\* C1: decrypt, given the key of the encrypt call and the pair that call
\* returned, returns Ok with exactly the text encrypted, whatever the nonce.
C1_RoundTrip ==
    (last.op = "decrypt" /\ last.how \in {"moved", "copy"})
        => last.result = Ok(last.of.sealed.bytes)

C1_Witness ==
    /\ last.op = "decrypt"
    /\ last.how = "moved"
    /\ last.of.sealed.bytes = <<195, 169>>
    /\ last.result = Ok(<<195, 169>>)

\* C2: decrypt of a pair returned by encrypt, called with another key, with
\* another nonce or with the ciphertext modified, returns
\* Err(GenericDecryptionError): never Ok, never InvalidUTF8DecryptionError.
C2_AuthenticationFailure ==
    (last.op = "decrypt" /\ ~Authentic(last))
        => last.result = Err("GenericDecryptionError")

C2_Witness ==
    /\ last.op = "decrypt"
    /\ last.how = "last"
    /\ last.of.sealed.bytes = <<195, 169>>
    /\ last.arg.value.encrypted # last.of.pair.encrypted
    /\ last.result = Err("GenericDecryptionError")

\* C3: decrypt returns Err(InvalidUTF8DecryptionError) exactly when the
\* key, nonce and ciphertext are authentic and the bytes sealed are not
\* valid UTF-8; an authentic call on valid UTF-8 returns those bytes.
C3_Utf8Boundary ==
    last.op = "decrypt" =>
        /\ last.result = Err("InvalidUTF8DecryptionError")
               <=> (Authentic(last) /\ ~last.utf8)
        /\ (Authentic(last) /\ last.utf8) => last.result = Ok(last.of.sealed.bytes)

C3_Witness ==
    /\ last.op = "decrypt"
    /\ last.how = "copy"
    /\ last.of.sealed.bytes = <<133, 133>>
    /\ last.result = Err("InvalidUTF8DecryptionError")

\* the outcome of a two-stage validation against size n of input in
TwoStage(result, in, n, badBase64, badSize) ==
    LET accepted ==
            \/ in.form = "canonical"
            \/ in.form = "unpadded" /\ padding = "Indifferent"
    IN  IF in.form = "raw"
        THEN \/ result \in {Err(badBase64), Err(badSize)}
             \/ result.tag = "Ok" /\ Len(result.value) = n
        ELSE IF ~accepted THEN result = Err(badBase64)
        ELSE IF Len(in.bytes) # n THEN result = Err(badSize)
        ELSE result = Ok(in.bytes)

\* C4: Key::try_from (N = 32) and Iv::try_from (N = 12) return the base64
\* error for a text that is not base64, whatever its length; otherwise the
\* size error when the decoded length is not N; otherwise the decoded bytes.
C4_TwoStageValidation ==
    /\ last.op = "Key::try_from" =>
           TwoStage(last.result, last.input, KeySize,
                    "InvalidKeyBase64Error", "InvalidKeySizeError")
    /\ last.op = "Iv::try_from" =>
           TwoStage(last.result, last.input, IvSize,
                    "InvalidIvBase64Error", "InvalidIvSizeError")

C4_Witness ==
    /\ last.op = "Key::try_from"
    /\ last.input.form = "malformed"
    /\ Len(last.input.bytes) = KeySize
    /\ last.result = Err("InvalidKeyBase64Error")

\* C5: a Key made from raw key material succeeds exactly when the material
\* has 32 bytes, and the key then holds those bytes; so the 32 characters
\* "12345678901234567890123456789012" of the example program make a key.
C5_KeyFromRawBytes ==
    (last.op = "Key::try_from" /\ last.input.form = "raw") =>
        /\ last.result.tag = "Ok" <=> Len(last.input.bytes) = KeySize
        /\ last.result.tag = "Ok" => last.result.value = last.input.bytes

PadTo4(t) == t \o [i \in 1..((4 - (Len(t) % 4)) % 4) |-> PAD_BYTE]

\* C8 as claimed: rendering an Iv or an Encrypted parsed from a text gives
\* back exactly that text.
C8_RenderingInvertsParsing ==
    last.op \in {"Iv::fmt", "Encrypted::fmt"} => last.rendered = last.input.text

\* C8: rendering an Iv parsed from a text gives back that text; rendering
\* an Encrypted parsed from a text gives back that text completed with its
\* '=' padding (the text itself when its length is a multiple of four), and
\* parsing the rendering gives the same bytes.
C8_RenderingInvertsParsingUpToPadding ==
    /\ last.op = "Iv::fmt" => last.rendered = last.input.text
    /\ last.op = "Encrypted::fmt" =>
           /\ last.rendered = PadTo4(last.input.text)
           /\ Len(last.input.text) % 4 = 0 => last.rendered = last.input.text
           /\ Encrypted_try_from(last.rendered) = last.result

C8_Witness ==
    /\ last.op = "Encrypted::fmt"
    /\ last.input.form = "unpadded"
    /\ last.rendered # last.input.text
    /\ last.rendered = PadTo4(last.input.text)

\* C9: the pair returned by encrypt, rendered as two base64 strings and
\* rebuilt with Encrypted::try_from and Iv::try_from, is the same pair, and
\* decrypt of it under the same key returns the text encrypted.
C9_TextualRoundTrip ==
    (last.op = "decrypt" /\ last.how = "wire") =>
        /\ last.arg = Ok(last.of.pair)
        /\ last.result = Ok(last.of.sealed.bytes)

C9_Witness ==
    /\ last.op = "decrypt"
    /\ last.how = "wire"
    /\ last.of.sealed.bytes = <<195, 169>>
    /\ last.result = Ok(<<195, 169>>)

\* C10 as claimed: every call leaves the key and every pair the callers
\* own unchanged and still usable.
C10_InputsStillUsable ==
    [][ /\ key' = key
        /\ \A i \in DOMAIN held : \E j \in DOMAIN held' : held'[j] = held[i]
      ]_vars

\* C10: every call leaves the key unchanged; encrypt and a decrypt of a
\* copy leave every pair owned unchanged, while decrypt of a pair itself
\* takes that pair and no other; and what a decrypt call returns depends
\* only on what was sealed and on how its argument was made, so that it is
\* the same at every repetition.
C10_CallsIndependent ==
    [][ /\ key' = key
        /\ \/ held' = held
           \/ /\ last'.op = "encrypt"
              /\ Len(held') = Len(held) + 1
              /\ SubSeq(held', 1, Len(held)) = held
           \/ /\ last'.op = "decrypt"
              /\ last'.how = "moved"
              /\ \E i \in DOMAIN held :
                    held' = Remove(held, i) /\ last'.of = held[i]
        /\ last'.op = "decrypt" =>
              /\ last'.result = Expected(last'.of, last'.how)
              /\ last'.how # "moved" => held' = held
      ]_vars

C10_Witness ==
    /\ last.op = "decrypt"
    /\ last.how = "copy"
    /\ Len(held) = 2
    /\ last.of = held[1]
    /\ last.result = Ok(<<195, 169>>)

====
